---- MODULE Spec2Model ----
(***************************************************************************)
(* A model of engine.py: the Tensor computation graph, the backward rules  *)
(* of its operations, reshape_gradient, and backward / zero_grad / step.   *)
(*                                                                         *)
(* Values are records [kind, shape, v].  kind = "ndarray": a numpy array   *)
(* (numpy scalars and 0-d arrays both have shape <<>> and are not told     *)
(* apart), shape its tuple of dimensions, v maps every index tuple         *)
(* (0-based entries) to an entry.  kind = "int": a plain Python number     *)
(* (the 0 that zero_grad stores).  kind = "raise": the expression raised   *)
(* an exception.  kind = "loop": its evaluation never ends.                *)
(* Entries are integers: every modelled operation maps integers to         *)
(* integers, and learning rates are integers.                              *)
(***************************************************************************)
EXTENDS Integers, Sequences, FiniteSets, TLC

VARIABLES
    n,          \* number of Tensor objects constructed; their ids are 1..n
    data,       \* data[t]     : Tensor.data
    grad,       \* grad[t]     : Tensor.grad
    prev,       \* prev[t]     : Tensor._prev (a set of ids)
    op,         \* op[t]       : what the closure Tensor._backward captured
    req_grad,   \* req_grad[t] : Tensor.req_grad
    hist,       \* the calls of backward / zero_grad / step made so far, with their outcomes
    topo,       \* the list the last call of _traverse_children returned
    order,      \* order[t]    : the order in which iterating over _prev yields it
    calls,      \* the nodes whose _backward the last backward() invoked, in order
    outcome,    \* how the last call ended: "returned", "raised" or "hung"
    snap,       \* grad as it was after the call hist[1]
    rg          \* the last call of reshape_gradient: its arguments and result

vars == <<n, data, grad, prev, op, req_grad, order, hist, topo, calls, outcome, snap, rg>>

graphVars == <<n, data, grad, prev, op, req_grad, order, hist, topo, calls, outcome, snap>>

(***************************************************************************)
(* Bounds of the model.                                                    *)
(***************************************************************************)
MaxNodes == 3
MaxCalls == 3
MaxRank == 3
MaxDim == 2

(***************************************************************************)
(* numpy arrays.                                                           *)
(***************************************************************************)
RECURSIVE Idx(_)
Idx(shape) ==
    IF shape = <<>> THEN {<<>>}
    ELSE {<<i>> \o t : i \in 0..(Head(shape) - 1), t \in Idx(Tail(shape))}

RECURSIVE SetSum(_, _)
SetSum(S, f) ==
    IF S = {} THEN 0
    ELSE LET x == CHOOSE y \in S : TRUE IN f[x] + SetSum(S \ {x}, f)

\* the ndarray of a shape with entries v, a function on Idx(shape)
Arr(shape, v) == [kind |-> "ndarray", shape |-> shape, v |-> v]

PyNum(k) == [kind |-> "int", shape |-> <<>>, v |-> [i \in {<<>>} |-> k]]

Raise == [kind |-> "raise", shape |-> <<>>, v |-> [i \in {<<>>} |-> 0]]

Loop == [kind |-> "loop", shape |-> <<>>, v |-> [i \in {<<>>} |-> 0]]

Failed(x) == x.kind \in {"raise", "loop"}

Zeros(shape) == Arr(shape, [i \in Idx(shape) |-> 0])

Ones(shape) == Arr(shape, [i \in Idx(shape) |-> 1])

\* the last k entries of a sequence
Last(s, k) == SubSeq(s, Len(s) - k + 1, Len(s))

\* shape s left-padded with 1s to rank r
Pad(s, r) == [i \in 1..r |-> IF i <= r - Len(s) THEN 1 ELSE s[i - (r - Len(s))]]

MaxRankOf(s, t) == IF Len(s) > Len(t) THEN Len(s) ELSE Len(t)

\* numpy's broadcasting rule: can shapes s and t be broadcast together
CanBroadcast(s, t) ==
    LET r == MaxRankOf(s, t)
    IN  \A i \in 1..r : Pad(s, r)[i] = Pad(t, r)[i] \/ Pad(s, r)[i] = 1 \/ Pad(t, r)[i] = 1

\* the shape they broadcast to
Broadcast(s, t) ==
    LET r == MaxRankOf(s, t)
    IN  [i \in 1..r |-> IF Pad(s, r)[i] = 1 THEN Pad(t, r)[i] ELSE Pad(s, r)[i]]

\* the index of an operand of shape s that index i of the broadcast result reads
BIdx(i, s) ==
    LET j == Last(i, Len(s)) IN [k \in 1..Len(s) |-> IF s[k] = 1 THEN 0 ELSE j[k]]

\* elementwise binary operation with broadcasting; two Python numbers give a number
Apply(f, x, y) == IF f = "+" THEN x + y ELSE x * y

Elementwise(a, b, f) ==
    IF Failed(a) THEN a
    ELSE IF Failed(b) THEN b
    ELSE IF ~CanBroadcast(a.shape, b.shape) THEN Raise
    ELSE IF a.kind = "int" /\ b.kind = "int" THEN PyNum(Apply(f, a.v[<<>>], b.v[<<>>]))
    ELSE LET oshape == Broadcast(a.shape, b.shape)
         IN  Arr(oshape, [i \in Idx(oshape) |->
                             Apply(f, a.v[BIdx(i, a.shape)], b.v[BIdx(i, b.shape)])])

NpAdd(a, b) == Elementwise(a, b, "+")

NpMul(a, b) == Elementwise(a, b, "*")

\* np.sum(a, axis=axes, keepdims=keepdims); axes is a set of 0-based axes
NpSum(a, axes, keepdims) ==
    LET r == Len(a.shape)
        kept == SelectSeq([k \in 1..r |-> k], LAMBDA k : (k - 1) \notin axes)
        oshape == IF keepdims
                  THEN [k \in 1..r |-> IF (k - 1) \in axes THEN 1 ELSE a.shape[k]]
                  ELSE [k \in 1..Len(kept) |-> a.shape[kept[k]]]
        proj(i) == IF keepdims
                   THEN [k \in 1..r |-> IF (k - 1) \in axes THEN 0 ELSE i[k]]
                   ELSE [k \in 1..Len(kept) |-> i[kept[k]]]
    IN  Arr(oshape, [o \in Idx(oshape) |->
                        SetSum({i \in Idx(a.shape) : proj(i) = o}, a.v)])

AllAxes(a) == {k - 1 : k \in 1..Len(a.shape)}

\* a.T for a 2-D array
Transpose(a) ==
    LET oshape == <<a.shape[2], a.shape[1]>>
    IN  Arr(oshape, [i \in Idx(oshape) |-> a.v[<<i[2], i[1]>>]])

\* np.matmul(a, b), modelled for 2-D operands
NpMatmul(a, b) ==
    IF Failed(a) THEN a
    ELSE IF Failed(b) THEN b
    ELSE IF a.kind # "ndarray" \/ b.kind # "ndarray" THEN Raise
    ELSE IF Len(a.shape) # 2 \/ Len(b.shape) # 2 THEN Raise
    ELSE IF a.shape[2] # b.shape[1] THEN Raise
    ELSE LET oshape == <<a.shape[1], b.shape[2]>>
             row(i) == {<<i[1], k>> : k \in 0..(a.shape[2] - 1)}
         IN  Arr(oshape, [i \in Idx(oshape) |->
                             SetSum(row(i), [j \in row(i) |-> a.v[j] * b.v[<<j[2], i[2]>>]])])

\* np.stack((a, b), axis=axis) for two arrays of one shape, 0 <= axis <= rank
NpStack(a, b, axis) ==
    LET r == Len(a.shape)
        oshape == SubSeq(a.shape, 1, axis) \o <<2>> \o SubSeq(a.shape, axis + 1, r)
        drop(i) == SubSeq(i, 1, axis) \o SubSeq(i, axis + 2, r + 1)
    IN  Arr(oshape, [i \in Idx(oshape) |->
                        IF i[axis + 1] = 0 THEN a.v[drop(i)] ELSE b.v[drop(i)]])

\* a[k]: the k-th sub-array along the first axis
Item(a, k) ==
    IF Failed(a) THEN a
    ELSE IF a.kind # "ndarray" THEN Raise
    ELSE IF a.shape = <<>> THEN Raise
    ELSE IF k >= Head(a.shape) THEN Raise
    ELSE Arr(Tail(a.shape), [i \in Idx(Tail(a.shape)) |-> a.v[<<k>> \o i]])

\* Python's x += y.  An ndarray is updated in place, so y must broadcast to x's
\* shape; a Python number is rebound to x + y.
IAdd(x, y) ==
    IF Failed(x) THEN x
    ELSE IF Failed(y) THEN y
    ELSE IF x.kind = "int" THEN Elementwise(x, y, "+")
    ELSE IF ~CanBroadcast(x.shape, y.shape) THEN Raise
    ELSE IF Broadcast(x.shape, y.shape) # x.shape THEN Raise
    ELSE Arr(x.shape, [i \in Idx(x.shape) |-> x.v[i] + y.v[BIdx(i, y.shape)]])

(***************************************************************************)
(* reshape_gradient                                                        *)
(***************************************************************************)
reshape_gradient(gradient, target_shape) ==
    IF Failed(gradient) THEN gradient
    ELSE IF gradient.kind # "ndarray" THEN Raise        \* a number has no .shape
    ELSE IF gradient.shape = target_shape THEN gradient
    ELSE IF target_shape = <<>> THEN NpSum(gradient, AllAxes(gradient), FALSE)
    ELSE IF Len(target_shape) > Len(gradient.shape) THEN Loop   \* the while loop never ends
    ELSE LET keepdims == Len(target_shape) = Len(gradient.shape)
             padded == Pad(target_shape, Len(gradient.shape))
             broadcast_axes == {i - 1 : i \in {k \in 1..Len(padded) :
                                    padded[k] = 1 /\ gradient.shape[k] # 1}}
         IN  NpSum(gradient, broadcast_axes, keepdims)

(***************************************************************************)
(* Inputs of the model.                                                    *)
(***************************************************************************)
LeafShapes == {<<>>, <<2>>, <<2, 2>>, <<2, 3>>}

ArithShapes == {<<>>, <<2>>, <<1, 2>>, <<2, 2>>}

\* the data of a leaf of a given shape: distinct entries, 2 at index 0
LeafData(shape) ==
    Arr(shape, [i \in Idx(shape) |-> 2 + SetSum(DOMAIN i, [k \in DOMAIN i |-> k * i[k]])])

LearningRates == {2}

(***************************************************************************)
(* Tensor.__init__                                                         *)
(***************************************************************************)
\* a closure: the operation, the Tensors self and other it captured (0: none)
\* and the axis argument (<<>>: None or absent, <<k>>: the axis k)
Closure(kind, self, other, axis) ==
    [kind |-> kind, self |-> self, other |-> other, axis |-> axis]

Leaf == Closure("leaf", 0, 0, <<>>)

\* Tensor(d, _parent, ...) with _backward set afterwards to the closure o;
\* ord is the order in which the set built from _parent is iterated
Construct(d, parents, ord, o, rq) ==
    /\ n' = n + 1
    /\ data' = Append(data, d)
    /\ grad' = Append(grad, Zeros(d.shape))
    /\ prev' = Append(prev, parents)
    /\ order' = Append(order, ord)
    /\ op' = Append(op, o)
    /\ req_grad' = Append(req_grad, rq)
    /\ UNCHANGED <<hist, topo, calls, outcome, snap, rg>>

Orders(a, b) == IF a = b THEN {<<a>>} ELSE {<<a, b>>, <<b, a>>}

\* the graph is built first; backward, zero_grad and step are called on it afterwards
Running == n < MaxNodes /\ hist = <<>>

\* Tensor(data, req_grad=rq)
NewLeafOf(shapes, flags) ==
    /\ Running
    /\ \E shape \in shapes, rq \in flags :
          Construct(LeafData(shape), {}, <<>>, Leaf, rq)

NewLeaf == NewLeafOf(LeafShapes, BOOLEAN)

\* __add__ with a Tensor operand
Add ==
    /\ Running
    /\ \E a \in 1..n, b \in 1..n :
          /\ CanBroadcast(data[a].shape, data[b].shape)
          /\ \E ord \in Orders(a, b) :
                Construct(NpAdd(data[a], data[b]), {a, b}, ord,
                          Closure("+", a, b, <<>>), FALSE)

\* __mul__ with a Tensor operand
Mul ==
    /\ Running
    /\ \E a \in 1..n, b \in 1..n :
          /\ CanBroadcast(data[a].shape, data[b].shape)
          /\ \E ord \in Orders(a, b) :
                Construct(NpMul(data[a], data[b]), {a, b}, ord,
                          Closure("*", a, b, <<>>), FALSE)

\* matmul with a Tensor operand: the output is constructed without _parent
Matmul ==
    /\ Running
    /\ \E a \in 1..n, b \in 1..n :
          /\ ~Failed(NpMatmul(data[a], data[b]))
          /\ Construct(NpMatmul(data[a], data[b]), {}, <<>>,
                       Closure("matmul", a, b, <<>>), FALSE)

\* the axis argument of sum: <<>> is None, <<k>> is the axis k
SumAxes(a, axis) == IF axis = <<>> THEN AllAxes(a) ELSE {axis[1]}

Sum ==
    /\ Running
    /\ \E a \in 1..n :
          \E axis \in {<<>>} \cup {<<k>> : k \in AllAxes(data[a])} :
             Construct(NpSum(data[a], SumAxes(data[a], axis), FALSE), {a}, <<a>>,
                       Closure("sum", a, 0, axis), FALSE)

Stack ==
    /\ Running
    /\ \E a \in 1..n, b \in 1..n :
          /\ data[a].shape = data[b].shape
          /\ \E axis \in 0..Len(data[a].shape), ord \in Orders(a, b) :
                Construct(NpStack(data[a], data[b], axis), {a, b}, ord,
                          Closure("stack", a, b, <<axis>>), FALSE)

(***************************************************************************)
(* _traverse_children                                                      *)
(***************************************************************************)
RECURSIVE build_topo(_, _)
RECURSIVE build_children(_, _)

\* for child in node._prev: build_topo(child)
build_children(st, children) ==
    IF children = <<>> THEN st
    ELSE build_children(build_topo(st, Head(children)), Tail(children))

\* build_topo without the test of visited
build_topo_revisiting(st, node) ==
    LET st2 == build_children(st, order[node])
    IN  [st2 EXCEPT !.topo = Append(@, node)]

build_topo(st, node) ==
    IF node \in st.visited THEN st
    ELSE LET st1 == [st EXCEPT !.visited = @ \cup {node}]
             st2 == build_children(st1, order[node])
         IN  [st2 EXCEPT !.topo = Append(@, node)]

_traverse_children(root) == build_topo([topo |-> <<>>, visited |-> {}], root).topo

Reverse(s) == [i \in 1..Len(s) |-> s[Len(s) + 1 - i]]

(***************************************************************************)
(* The closures _backward.  A pass is [g, calls, out]: the gradients, the  *)
(* rules invoked so far, and "returned" until a statement raises or hangs. *)
(***************************************************************************)
\* p.grad = val, in place of p.grad += val
AccumOverwriting(st, p, val) ==
    IF st.out # "returned" THEN st
    ELSE IF val.kind = "raise" THEN [st EXCEPT !.out = "raised"]
    ELSE IF val.kind = "loop" THEN [st EXCEPT !.out = "hung"]
    ELSE [st EXCEPT !.g[p] = val]

\* p.grad += val
Accum(st, p, val) ==
    IF st.out # "returned" THEN st
    ELSE LET r == IAdd(st.g[p], val)
         IN  IF r.kind = "raise" THEN [st EXCEPT !.out = "raised"]
             ELSE IF r.kind = "loop" THEN [st EXCEPT !.out = "hung"]
             ELSE [st EXCEPT !.g[p] = r]

add_backward(st, t) ==
    LET s1 == Accum(st, op[t].self, reshape_gradient(st.g[t], data[op[t].self].shape))
    IN  Accum(s1, op[t].other, reshape_gradient(s1.g[t], data[op[t].other].shape))

mul_backward(st, t) ==
    LET s1 == Accum(st, op[t].self,
                    reshape_gradient(NpMul(data[op[t].other], st.g[t]), data[op[t].self].shape))
    IN  Accum(s1, op[t].other,
              reshape_gradient(NpMul(data[op[t].self], s1.g[t]), data[op[t].other].shape))

matmul_backward(st, t) ==
    LET s1 == Accum(st, op[t].self, NpMatmul(st.g[t], Transpose(data[op[t].other])))
    IN  Accum(s1, op[t].other, NpMatmul(Transpose(data[op[t].self]), s1.g[t]))

sum_backward(st, t) == Accum(st, op[t].self, st.g[t])

stack_backward(st, t) ==
    LET s1 == Accum(st, op[t].self, Item(st.g[t], 0))
    IN  Accum(s1, op[t].other, Item(s1.g[t], 1))

\* node._backward()
Rule(st, t) ==
    CASE op[t].kind = "leaf" -> st
      [] op[t].kind = "+" -> add_backward(st, t)
      [] op[t].kind = "*" -> mul_backward(st, t)
      [] op[t].kind = "matmul" -> matmul_backward(st, t)
      [] op[t].kind = "sum" -> sum_backward(st, t)
      [] op[t].kind = "stack" -> stack_backward(st, t)

RECURSIVE RunRules(_, _)
RunRules(st, nodes) ==
    IF nodes = <<>> \/ st.out # "returned" THEN st
    ELSE RunRules(Rule([st EXCEPT !.calls = Append(@, Head(nodes))], Head(nodes)),
                  Tail(nodes))

(***************************************************************************)
(* backward, zero_grad, step                                               *)
(***************************************************************************)
Call(f, root, lr, out) == [f |-> f, root |-> root, lr |-> lr, out |-> out]

\* a hung call never returns; the calls of one run are made on one root
CanCall(root) ==
    /\ outcome # "hung"
    /\ Len(hist) < MaxCalls
    /\ hist # <<>> => root = hist[1].root

backward_pass(root) ==
    RunRules([g |-> [grad EXCEPT ![root] = Ones(data[root].shape)],
              calls |-> <<>>, out |-> "returned"],
             Reverse(_traverse_children(root)))

Backward ==
    /\ \E root \in 1..n :
          LET st == backward_pass(root)
          IN  /\ CanCall(root)
              /\ grad' = st.g
              /\ calls' = st.calls
              /\ outcome' = st.out
              /\ topo' = _traverse_children(root)
              /\ hist' = Append(hist, Call("backward", root, 0, st.out))
              /\ snap' = IF hist = <<>> THEN st.g ELSE snap
              /\ UNCHANGED <<n, data, prev, order, op, req_grad, rg>>

RECURSIVE zero_nodes(_, _)
zero_nodes(g, nodes) ==
    IF nodes = <<>> THEN g
    ELSE zero_nodes([g EXCEPT ![Head(nodes)] = PyNum(0)], Tail(nodes))

zero_grad(root) == zero_nodes(grad, Reverse(<<root>> \o _traverse_children(root)))

ZeroGrad ==
    /\ \E root \in 1..n :
          /\ CanCall(root)
          /\ grad' = zero_grad(root)
          /\ outcome' = "returned"
          /\ topo' = _traverse_children(root)
          /\ hist' = Append(hist, Call("zero_grad", root, 0, "returned"))
          /\ snap' = IF hist = <<>> THEN grad' ELSE snap
          /\ UNCHANGED <<n, data, prev, order, op, req_grad, calls, rg>>

\* x -= y on an ndarray x
ISub(x, y) == IAdd(x, NpMul(y, PyNum(-1)))

RECURSIVE step_nodes(_, _, _)
step_nodes(st, nodes, learning_rate) ==
    IF nodes = <<>> \/ st.out # "returned" THEN st
    ELSE IF ~req_grad[Head(nodes)] THEN step_nodes(st, Tail(nodes), learning_rate)
    ELSE LET r == ISub(st.d[Head(nodes)], NpMul(grad[Head(nodes)], PyNum(learning_rate)))
         IN  IF Failed(r) THEN [st EXCEPT !.out = "raised"]
             ELSE step_nodes([st EXCEPT !.d[Head(nodes)] = r], Tail(nodes), learning_rate)

step(root, learning_rate) ==
    step_nodes([d |-> data, out |-> "returned"],
               Reverse(<<root>> \o _traverse_children(root)), learning_rate)

Step ==
    /\ \E root \in 1..n, learning_rate \in LearningRates :
          LET st == step(root, learning_rate)
          IN  /\ CanCall(root)
              /\ data' = st.d
              /\ outcome' = st.out
              /\ topo' = _traverse_children(root)
              /\ hist' = Append(hist, Call("step", root, learning_rate, st.out))
              /\ snap' = IF hist = <<>> THEN grad ELSE snap
              /\ UNCHANGED <<n, grad, prev, order, op, req_grad, calls, rg>>

(***************************************************************************)
(* The program: Tensors are constructed and combined, and backward,        *)
(* zero_grad and step are called on any of them.                           *)
(***************************************************************************)
RgIdle == [gradient |-> Zeros(<<>>), target_shape |-> <<>>, out |-> <<>>, pc |-> "idle"]

Init ==
    /\ n = 0
    /\ data = <<>>
    /\ grad = <<>>
    /\ prev = <<>>
    /\ order = <<>>
    /\ op = <<>>
    /\ req_grad = <<>>
    /\ hist = <<>>
    /\ topo = <<>>
    /\ calls = <<>>
    /\ outcome = "returned"
    /\ snap = <<>>
    /\ rg = RgIdle

Next == NewLeaf \/ Add \/ Mul \/ Matmul \/ Sum \/ Stack \/ Backward \/ ZeroGrad \/ Step

Spec == Init /\ [][Next]_vars

(***************************************************************************)
(* The arithmetic fragment: a graph of leaves, __add__ and __mul__ is       *)
(* built, and backward is called once on one of its nodes.                 *)
(***************************************************************************)
NewArithLeaf == NewLeafOf(ArithShapes, {TRUE})

FirstBackward == hist = <<>> /\ Backward

NextArith == NewArithLeaf \/ Add \/ Mul \/ FirstBackward

SpecArith == Init /\ [][NextArith]_vars

(***************************************************************************)
(* reshape_gradient called on an array of ones of shape G with a target    *)
(* shape T that broadcasts to G.                                           *)
(***************************************************************************)
RECURSIVE ShapesOfRank(_)
ShapesOfRank(r) ==
    IF r = 0 THEN {<<>>}
    ELSE {<<d>> \o s : d \in 1..MaxDim, s \in ShapesOfRank(r - 1)}

Shapes == UNION {ShapesOfRank(r) : r \in 0..MaxRank}

InitReshape ==
    /\ n = 0
    /\ data = <<>>
    /\ grad = <<>>
    /\ prev = <<>>
    /\ order = <<>>
    /\ op = <<>>
    /\ req_grad = <<>>
    /\ hist = <<>>
    /\ topo = <<>>
    /\ calls = <<>>
    /\ outcome = "returned"
    /\ snap = <<>>
    /\ \E G \in Shapes, T \in Shapes :
          /\ CanBroadcast(T, G)
          /\ Broadcast(T, G) = G
          /\ rg = [gradient |-> Ones(G), target_shape |-> T, out |-> <<>>, pc |-> "call"]

ReshapeCall ==
    /\ rg.pc = "call"
    /\ rg' = [rg EXCEPT !.out = <<reshape_gradient(rg.gradient, rg.target_shape)>>,
                        !.pc = "done"]
    /\ UNCHANGED graphVars

NextReshape == ReshapeCall

SpecReshape == InitReshape /\ [][NextReshape]_vars

(***************************************************************************)
(* Properties.                                                             *)
(***************************************************************************)
\* the nodes reachable from the nodes of S by parent links
RECURSIVE Closure_prev(_)
Closure_prev(S) ==
    LET T == S \cup UNION {prev[x] : x \in S}
    IN  IF T = S THEN S ELSE Closure_prev(T)

Reach(root) == Closure_prev({root})

\* the Tensors the value of t was computed from, and the nodes computed from x
Operands(t) == {op[t].self, op[t].other} \ {0}

Consumers(x) == {c \in 1..n : x \in Operands(c)}

\* the nodes the value of root was computed from, root included
RECURSIVE Closure_operands(_)
Closure_operands(S) ==
    LET T == S \cup UNION {Operands(x) : x \in S}
    IN  IF T = S THEN S ELSE Closure_operands(T)

Contributors(root) == Closure_operands({root})

Pos(s, x) == CHOOSE i \in 1..Len(s) : s[i] = x

Elems(s) == {s[i] : i \in 1..Len(s)}

LastCall == hist[Len(hist)]

\* the last call was backward and it returned
BackwardReturned == hist # <<>> /\ LastCall.f = "backward" /\ outcome = "returned"

\* the only call so far is a backward that returned: one pass on a fresh graph
FreshBackward == Len(hist) = 1 /\ BackwardReturned

\* C1: backward(root) invokes the rule of every node reachable from root by
\* parent links exactly once, root first, and the rule of a node only after the
\* rules of all its consumers that are reachable from root.
C1_RulesAfterConsumers ==
    BackwardReturned =>
        /\ Elems(calls) = Reach(LastCall.root)
        /\ Len(calls) = Cardinality(Reach(LastCall.root))
        /\ calls[1] = LastCall.root
        /\ \A x \in Elems(calls) : \A c \in Consumers(x) \cap Reach(LastCall.root) :
              Pos(calls, c) < Pos(calls, x)

\* C2: __traverse_children(root) returns every node reachable from root by parent
\* links exactly once and no other node, every parent before each node that has
\* it as a parent, and root last.
C2_TraverseIsTopologicalOrder ==
    hist # <<>> =>
        /\ Elems(topo) = Reach(LastCall.root)
        /\ Len(topo) = Cardinality(Reach(LastCall.root))
        /\ \A i \in 1..Len(topo) : \A p \in prev[topo[i]] :
              \E j \in 1..(i - 1) : topo[j] = p
        /\ topo[Len(topo)] = LastCall.root

\* a traversal that met a node shared by two of the nodes it visited
C2_Witness ==
    /\ hist # <<>>
    /\ \E x \in Elems(topo), c1 \in Elems(topo), c2 \in Elems(topo) :
          c1 # c2 /\ x \in prev[c1] /\ x \in prev[c2]

\* the uses of x on the way to root: <<c, slot>> when x is operand slot of node c
Uses(x, root) ==
    {u \in Reach(root) \X {"self", "other"} : op[u[1]][u[2]] = x}

\* what the use u of x, an operand of __add__ or __mul__, contributes to entry i
\* of the gradient of x: the sum, over the entries j of the output that read
\* entry i of x, of d output[j] / d x[i] times the gradient of the output at j
UseTerm(x, u, j) ==
    LET c == u[1]
        co == IF u[2] = "self" THEN op[c].other ELSE op[c].self
    IN  IF op[c].kind = "+" THEN grad[c].v[j]
        ELSE data[co].v[BIdx(j, data[co].shape)] * grad[c].v[j]

SumOfUses(x, root, i) ==
    LET T == {t \in UNION {{<<u, j>> : j \in Idx(data[u[1]].shape)} : u \in Uses(x, root)} :
                 BIdx(t[2], data[x].shape) = i}
    IN  (IF x = root THEN 1 ELSE 0) + SetSum(T, [t \in T |-> UseTerm(x, t[1], t[2])])

\* C3: after backward(root) on a freshly built graph of additions and
\* multiplications, the gradient of every node x reached is the sum of the
\* contributions of all uses of x (plus the seed 1 at root), whether x is used
\* by two different nodes or is both operands of one; backward on add(x, x)
\* gives x.grad = 2 and on multiply(x, x) gives x.grad = 2 * x.data.
C3_GradientIsSumOfUses ==
    FreshBackward =>
        /\ \A x \in Reach(LastCall.root) :
              grad[x] = Arr(data[x].shape,
                            [i \in Idx(data[x].shape) |-> SumOfUses(x, LastCall.root, i)])
        /\ LET c == LastCall.root
               x == op[c].self
           IN  (op[c].kind \in {"+", "*"} /\ op[c].other = x) =>
                  grad[x] = Arr(data[x].shape,
                                [i \in Idx(data[x].shape) |->
                                     IF op[c].kind = "+" THEN 2 ELSE 2 * data[x].v[i]])

\* a fresh backward has returned from a root that reaches a node that is both
\* operands of one node and is also used by a second node
C3_Witness ==
    /\ FreshBackward
    /\ \E x \in Reach(LastCall.root), c1 \in Reach(LastCall.root), c2 \in Reach(LastCall.root) :
          /\ c1 # c2
          /\ op[c1].self = x /\ op[c1].other = x
          /\ x \in Operands(c2)
          /\ grad[x] # Zeros(data[x].shape)

\* C4: the gradient of every node has exactly the shape of its value (a plain
\* number counts as having the shape of a scalar).
C4_GradShapeIsValueShape ==
    \A t \in 1..n : grad[t].shape = data[t].shape

\* C6: every operation records exactly its operand nodes as the parents of its
\* output, so a traversal from a root reaches every node its value was computed
\* from.
C6_ParentsAreOperands ==
    /\ \A t \in 1..n : prev[t] = Operands(t)
    /\ \A t \in 1..n : Contributors(t) \subseteq Elems(_traverse_children(t))

\* the array of shape T whose entry t counts the elements of an array of
\* shape G that broadcasting T to G reads from t
BroadcastCount(G, T) ==
    Arr(T, [t \in Idx(T) |-> Cardinality({g \in Idx(G) : BIdx(g, T) = t})])

\* C5: for every target shape T that broadcasts to G, reshape_gradient(ones(G), T)
\* returns an array of shape exactly T whose every entry is the number of
\* elements of G that broadcast onto it.
C5_ReshapeOnesCounts ==
    rg.pc = "done" =>
        /\ rg.out[1].kind = "ndarray"
        /\ rg.out[1].shape = rg.target_shape
        /\ rg.out[1] = BroadcastCount(rg.gradient.shape, rg.target_shape)

\* C7: step(root, learning_rate) subtracts gradient * learning_rate exactly once
\* from the value of every trainable node among root and its ancestors, and
\* leaves every other value and every gradient unchanged.
C7_StepUpdatesOnce ==
    [][(/\ Len(hist') = Len(hist) + 1
        /\ hist'[Len(hist')].f = "step"
        /\ outcome' = "returned")
       => /\ grad' = grad
          /\ \A t \in 1..n :
                data'[t] = IF req_grad[t] /\ t \in Reach(hist'[Len(hist')].root)
                           THEN ISub(data[t], NpMul(grad[t], PyNum(hist'[Len(hist')].lr)))
                           ELSE data[t]]_vars

\* the only call so far is a backward (it may have raised), and no matmul is
\* among the nodes root was computed from
FreshPass(root) ==
    /\ Len(hist) = 1
    /\ hist[1].f = "backward"
    /\ hist[1].root = root
    /\ \A c \in Contributors(root) : op[c].kind # "matmul"

\* the rule that raised or hung, when the last backward did not return
FailedRule == op[calls[Len(calls)]]

\* x is an operand of node c only, among the nodes root was computed from
OnlyUse(x, c, root) == Consumers(x) \cap Contributors(root) = {c}

\* the entry of the output of sum(axis) that entry i of its 2-D operand is added into
SumTarget(i, axis) ==
    IF axis = <<>> THEN <<>> ELSE IF axis = <<0>> THEN <<i[2]>> ELSE <<i[1]>>

\* C8: the backward rule of sum(axis) on a 2-D operand, axis None, 0 or 1, never
\* raises and adds to every operand entry the upstream gradient of the output
\* entry it was summed into.
C8_SumBackward ==
    \A root \in 1..n : FreshPass(root) =>
        /\ outcome # "returned" =>
              ~(FailedRule.kind = "sum" /\ Len(data[FailedRule.self].shape) = 2)
        /\ outcome = "returned" =>
              \A s \in Reach(root) :
                 (/\ op[s].kind = "sum"
                  /\ Len(data[op[s].self].shape) = 2
                  /\ OnlyUse(op[s].self, s, root))
                 => grad[op[s].self] =
                       Arr(data[op[s].self].shape,
                           [i \in Idx(data[op[s].self].shape) |->
                                grad[s].v[SumTarget(i, op[s].axis)]])

\* index i with entry k inserted at the 0-based position axis
Ins(i, axis, k) == SubSeq(i, 1, axis) \o <<k>> \o SubSeq(i, axis + 1, Len(i))

\* C9: the backward rule of stack(other, axis) never raises and adds to self the
\* slice 0 and to other the slice 1 of the upstream gradient along the stacking
\* axis, for every axis.
C9_StackBackward ==
    \A root \in 1..n : FreshPass(root) =>
        /\ outcome # "returned" => FailedRule.kind # "stack"
        /\ outcome = "returned" =>
              \A s \in Reach(root) : \A x \in Operands(s) :
                 (op[s].kind = "stack" /\ OnlyUse(x, s, root))
                 => grad[x] =
                       Arr(data[x].shape,
                           [i \in Idx(data[x].shape) |->
                              (IF op[s].self = x
                               THEN grad[s].v[Ins(i, op[s].axis[1], 0)] ELSE 0)
                              + (IF op[s].other = x
                                 THEN grad[s].v[Ins(i, op[s].axis[1], 1)] ELSE 0)])

\* C10: backward(root); zero_grad(root); backward(root) leaves every node the
\* value of root was computed from with the gradient that the first backward
\* alone left.
C10_BackwardZeroBackward ==
    (/\ Len(hist) = 3
     /\ hist[1].f = "backward" /\ hist[1].out = "returned"
     /\ hist[2].f = "zero_grad"
     /\ hist[3].f = "backward")
    => /\ outcome = "returned"
       /\ \A x \in Contributors(hist[1].root) : grad[x] = snap[x]

====
